---- MODULE Spec2Model ----
(***************************************************************************)
(* Group metrics aggregation of the benchmark harness                      *)
(* (core/bench/src/analytics/metrics/group.rs).                            *)
(*                                                                         *)
(* The two entry points, from_individual_metrics and                       *)
(* from_producers_and_consumers_statistics, are pure functions of their    *)
(* arguments.  A behaviour of the model is one call: Init draws the        *)
(* arguments of the call from bounded sets, and the action of the called   *)
(* function stores what it returns in `result`.                            *)
(*                                                                         *)
(* f64 values are modelled exactly: a finite value is a normalised         *)
(* fraction num/den (or the square root of one, for the standard           *)
(* deviation), NaN is the value with den = 0.  Every input field of the    *)
(* model is a small integer, so the sums the code computes are exact in    *)
(* f64 as well, and a quotient stands for its correctly rounded f64.       *)
(***************************************************************************)
EXTENDS Integers, Sequences, FiniteSets, TLC

(***************************************************************************)
(* Bounds of the model.                                                    *)
(***************************************************************************)
\* longest list of freely chosen records at the head of an input list
MaxLen == 2
\* largest moving-average window
MaxWindow == 2
\* largest number of samples of a record's time series
MaxSamples == 2

(***************************************************************************)
(* f64                                                                     *)
(***************************************************************************)
RECURSIVE Gcd(_, _)
Gcd(a, b) == IF b = 0 THEN a ELSE Gcd(b, a % b)

Abs(a) == IF a < 0 THEN -a ELSE a

NaN == [num |-> 0, den |-> 0, root |-> 1]

IsNaN(x) == x.den = 0

\* the f64 nearest to n/d (d # 0), kept as the normalised fraction
Frac(n, d) ==
    LET g == Gcd(Abs(n), Abs(d))
        s == IF d < 0 THEN -1 ELSE 1
    IN  [num |-> (s * n) \div g, den |-> (s * d) \div g, root |-> 1]

F(n) == [num |-> n, den |-> 1, root |-> 1]

Zero == F(0)

\* a + b; NaN is absorbing
FAdd(a, b) ==
    IF IsNaN(a) \/ IsNaN(b) THEN NaN
    ELSE IF a.den = 1 /\ b.den = 1 THEN F(a.num + b.num)
    ELSE LET g == Gcd(a.den, b.den)
         IN  Frac(a.num * (b.den \div g) + b.num * (a.den \div g),
                  (a.den \div g) * b.den)

FSub(a, b) == FAdd(a, [b EXCEPT !.num = -b.num])

FMul(a, b) ==
    IF IsNaN(a) \/ IsNaN(b) THEN NaN
    ELSE Frac(a.num * b.num, a.den * b.den)

\* a / (count as f64); 0.0 / 0.0 and NaN / n are NaN.  The model divides
\* non-negative totals only, and x / 0.0 for x > 0 (+inf) does not occur.
FDivCount(a, count) ==
    IF IsNaN(a) \/ count = 0 THEN NaN
    ELSE Frac(a.num, a.den * count)

\* a < b on finite values
FLess(a, b) == a.num * b.den < b.num * a.den

\* f64::partial_cmp followed by unwrap_or(Ordering::Equal)
\* a variant with a total order in which NaN is the greatest value
PartialCmpOrEqual_nan_greatest(a, b) ==
    IF IsNaN(a) /\ IsNaN(b) THEN "Equal"
    ELSE IF IsNaN(a) THEN "Greater"
    ELSE IF IsNaN(b) THEN "Less"
    ELSE IF FLess(a, b) THEN "Less"
    ELSE IF FLess(b, a) THEN "Greater"
    ELSE "Equal"

PartialCmpOrEqual(a, b) ==
    IF IsNaN(a) \/ IsNaN(b) THEN "Equal"
    ELSE IF FLess(a, b) THEN "Less"
    ELSE IF FLess(b, a) THEN "Greater"
    ELSE "Equal"

\* the largest k in lo..hi with k * k <= n, given lo * lo <= n
RECURSIVE RootBetween(_, _, _)
RootBetween(n, lo, hi) ==
    IF lo = hi THEN lo
    ELSE LET mid == (lo + hi + 1) \div 2
         IN  IF mid * mid <= n THEN RootBetween(n, mid, hi)
             ELSE RootBetween(n, lo, mid - 1)

\* the integer square root (46340 is the largest root of a 32-bit integer)
ISqrt(n) == RootBetween(n, 0, IF n < 46340 THEN n ELSE 46340)

IsSquare(n) == ISqrt(n) * ISqrt(n) = n

\* f64::sqrt of a non-negative value: exact when the fraction is a square,
\* kept as the root of the fraction otherwise
FSqrt(a) ==
    IF IsNaN(a) THEN NaN
    ELSE IF IsSquare(a.num) /\ IsSquare(a.den) THEN Frac(ISqrt(a.num), ISqrt(a.den))
    ELSE [num |-> a.num, den |-> a.den, root |-> 2]

(***************************************************************************)
(* Option<T>                                                               *)
(***************************************************************************)
None == [is_some |-> FALSE]

Some(v) == [is_some |-> TRUE, value |-> v]

\* Iterator::collect::<Vec<_>>(): the values as a stored sequence, each
\* element evaluated once
collect(values) == SubSeq(values, 1, Len(values))

(***************************************************************************)
(* Data model (bench_report): ActorKind, GroupMetricsKind, TimeSeries and  *)
(* BenchmarkIndividualMetrics.  A TimeSeries is the sequence of the values *)
(* of its points, in sample order.                                         *)
(***************************************************************************)
ActorKind == {"Producer", "Consumer", "ProducingConsumer"}

GroupMetricsKind ==
    {"Producers", "Consumers", "ProducingConsumers", "ProducersAndConsumers"}

\* One actor's record.  Every scalar field of a profile differs from every
\* other one; profile 0 is a malformed record whose min/max latency is NaN.
BenchmarkIndividualMetrics(kind, p, n) ==
    [summary |->
        [actor_kind |-> kind,
         throughput_megabytes_per_second |-> F(10 * p),
         throughput_messages_per_second |-> F(1000 * p),
         p50_latency_ms |-> F(2 * p),
         p90_latency_ms |-> F(2 * p + 3),
         p95_latency_ms |-> F(3 * p + 3),
         p99_latency_ms |-> F(4 * p + 3),
         p999_latency_ms |-> F(5 * p + 4),
         p9999_latency_ms |-> F(6 * p + 5),
         avg_latency_ms |-> F(2 * p + 1),
         median_latency_ms |-> F(2 * p + 2),
         min_latency_ms |-> IF p = 0 THEN NaN ELSE F(p),
         max_latency_ms |-> IF p = 0 THEN NaN ELSE F(50 * p)],
     throughput_mb_ts |-> collect([i \in 1..n |-> F(10 * p + i)]),
     throughput_msg_ts |-> collect([i \in 1..n |-> F(1000 * p + 10 * i)]),
     latency_ts |-> collect([i \in 1..n |-> F(2 * p * i)])]

(***************************************************************************)
(* Iterator folds of the standard library, as the code uses them.          *)
(***************************************************************************)
\* The folds thread their accumulator through values[lo..hi] from left to
\* right.  The range is halved, and the accumulator of the left half is
\* evaluated (left = left) before the right half is entered, only to keep
\* the evaluation shallow: the value is that of the plain left fold.

\* Iterator::sum::<f64>(): a left fold of + from 0.0
RECURSIVE SumFold(_, _, _, _)
SumFold(acc, values, lo, hi) ==
    IF lo > hi THEN acc
    ELSE IF lo = hi THEN FAdd(acc, values[lo])
    ELSE LET mid == (lo + hi) \div 2
             left == SumFold(acc, values, lo, mid)
         IN  IF left = left THEN SumFold(left, values, mid + 1, hi) ELSE left

Sum(values) == SumFold(Zero, values, 1, Len(values))

\* cmp::min_by under partial_cmp(..).unwrap_or(Equal): the accumulator is
\* replaced only by a strictly smaller value
MinByStep(acc, v) == IF PartialCmpOrEqual(acc, v) = "Greater" THEN v ELSE acc

\* cmp::max_by likewise: the accumulator is kept only when it is strictly
\* greater, so the last of several equal values wins
MaxByStep(acc, v) == IF PartialCmpOrEqual(acc, v) = "Greater" THEN acc ELSE v

RECURSIVE MinByFold(_, _, _, _)
MinByFold(acc, values, lo, hi) ==
    IF lo > hi THEN acc
    ELSE IF lo = hi THEN MinByStep(acc, values[lo])
    ELSE LET mid == (lo + hi) \div 2
             left == MinByFold(acc, values, lo, mid)
         IN  IF left = left THEN MinByFold(left, values, mid + 1, hi) ELSE left

RECURSIVE MaxByFold(_, _, _, _)
MaxByFold(acc, values, lo, hi) ==
    IF lo > hi THEN acc
    ELSE IF lo = hi THEN MaxByStep(acc, values[lo])
    ELSE LET mid == (lo + hi) \div 2
             left == MaxByFold(acc, values, lo, mid)
         IN  IF left = left THEN MaxByFold(left, values, mid + 1, hi) ELSE left

\* Iterator::min_by / max_by: a reduce seeded with the first value
MinBy(values) ==
    IF Len(values) = 0 THEN None
    ELSE Some(MinByFold(values[1], values, 2, Len(values)))

MaxBy(values) ==
    IF Len(values) = 0 THEN None
    ELSE Some(MaxByFold(values[1], values, 2, Len(values)))

(***************************************************************************)
(* Collaborators whose code lies outside the aggregator: the time-series   *)
(* combinator, the smoothing processor and the series statistics of        *)
(* bench_report::utils.                                                    *)
(***************************************************************************)
\* sample count of the combined series: that of the (equal-length) inputs
CombinedLen(series_list) ==
    IF Len(series_list) = 0 THEN 0 ELSE Len(series_list[1])

\* TimeSeriesCalculator::aggregate_sum: elementwise sum
aggregate_sum(series_list) ==
    collect([i \in 1..CombinedLen(series_list) |->
        Sum([k \in 1..Len(series_list) |-> series_list[k][i]])])

\* TimeSeriesCalculator::aggregate_avg: elementwise mean
aggregate_avg(series_list) ==
    collect([i \in 1..CombinedLen(series_list) |->
        FDivCount(Sum([k \in 1..Len(series_list) |-> series_list[k][i]]),
                  Len(series_list))])

\* MovingAverageProcessor::process: sample i becomes the mean of the last
\* `window` samples up to i (of all of them while fewer are available)
process(window, series) ==
    collect([i \in 1..Len(series) |->
        LET first == IF i > window THEN i - window + 1 ELSE 1
            n == IF window = 0 THEN 0 ELSE i - first + 1
        IN  FDivCount(Sum([k \in 1..n |-> series[first + k - 1]]), n)])

\* bench_report::utils::min / max of a series: absent for an empty series
min(series) == MinBy(series)

max(series) == MaxBy(series)

\* bench_report::utils::std_dev: the population standard deviation of the
\* samples, absent for fewer than two samples
std_dev(series) ==
    IF Len(series) < 2 THEN None
    ELSE LET n == Len(series)
             mean == FDivCount(Sum(series), n)
             sq == [i \in 1..n |-> FMul(FSub(series[i], mean), FSub(series[i], mean))]
         IN  Some(FSqrt(FDivCount(Sum(sq), n)))

(***************************************************************************)
(* group.rs                                                                *)
(***************************************************************************)
\* a variant with a threshold that short lists reach
GroupKindThreshold_short == MaxLen

\* the record count at which the group kind follows the first record
GroupKindThreshold == 200

\* a variant that reads the last record instead of the first
determine_group_kind_of_last(stats) ==
    LET actor_kind == stats[Len(stats)].summary.actor_kind
    IN  CASE actor_kind = "Producer" -> "Producers"
          [] actor_kind = "Consumer" -> "Consumers"
          [] actor_kind = "ProducingConsumer" -> "ProducingConsumers"

determine_group_kind(stats) ==
    LET actor_kind == stats[1].summary.actor_kind
    IN  CASE actor_kind = "Producer" -> "Producers"
          [] actor_kind = "Consumer" -> "Consumers"
          [] actor_kind = "ProducingConsumer" -> "ProducingConsumers"

\* a variant that averages over one record too few
calculate_throughput_metrics_off_by_one(stats) ==
    LET count == Len(stats)
        total_mb_per_sec ==
            Sum([i \in 1..count |-> stats[i].summary.throughput_megabytes_per_second])
        total_msg_per_sec ==
            Sum([i \in 1..count |-> stats[i].summary.throughput_messages_per_second])
    IN  [total_megabytes_per_sec |-> total_mb_per_sec,
         total_messages_per_sec |-> total_msg_per_sec,
         average_megabytes_per_sec |-> FDivCount(total_mb_per_sec, count - 1),
         average_messages_per_sec |-> FDivCount(total_msg_per_sec, count - 1)]

calculate_throughput_metrics(stats) ==
    LET count == Len(stats)
        total_mb_per_sec ==
            Sum([i \in 1..count |-> stats[i].summary.throughput_megabytes_per_second])
        total_msg_per_sec ==
            Sum([i \in 1..count |-> stats[i].summary.throughput_messages_per_second])
    IN  [total_megabytes_per_sec |-> total_mb_per_sec,
         total_messages_per_sec |-> total_msg_per_sec,
         average_megabytes_per_sec |-> FDivCount(total_mb_per_sec, count),
         average_messages_per_sec |-> FDivCount(total_msg_per_sec, count)]

\* a variant that feeds the p999 average from the p99 field
calculate_latency_metrics_p999_from_p99(stats) ==
    LET count == Len(stats)
    IN  [p50_latency |->
             FDivCount(Sum([i \in 1..count |-> stats[i].summary.p50_latency_ms]), count),
         p90_latency |->
             FDivCount(Sum([i \in 1..count |-> stats[i].summary.p90_latency_ms]), count),
         p95_latency |->
             FDivCount(Sum([i \in 1..count |-> stats[i].summary.p95_latency_ms]), count),
         p99_latency |->
             FDivCount(Sum([i \in 1..count |-> stats[i].summary.p99_latency_ms]), count),
         p999_latency |->
             FDivCount(Sum([i \in 1..count |-> stats[i].summary.p99_latency_ms]), count),
         p9999_latency |->
             FDivCount(Sum([i \in 1..count |-> stats[i].summary.p9999_latency_ms]), count),
         average_latency |->
             FDivCount(Sum([i \in 1..count |-> stats[i].summary.avg_latency_ms]), count),
         median_latency |->
             FDivCount(Sum([i \in 1..count |-> stats[i].summary.median_latency_ms]), count)]

calculate_latency_metrics(stats) ==
    LET count == Len(stats)
    IN  [p50_latency |->
             FDivCount(Sum([i \in 1..count |-> stats[i].summary.p50_latency_ms]), count),
         p90_latency |->
             FDivCount(Sum([i \in 1..count |-> stats[i].summary.p90_latency_ms]), count),
         p95_latency |->
             FDivCount(Sum([i \in 1..count |-> stats[i].summary.p95_latency_ms]), count),
         p99_latency |->
             FDivCount(Sum([i \in 1..count |-> stats[i].summary.p99_latency_ms]), count),
         p999_latency |->
             FDivCount(Sum([i \in 1..count |-> stats[i].summary.p999_latency_ms]), count),
         p9999_latency |->
             FDivCount(Sum([i \in 1..count |-> stats[i].summary.p9999_latency_ms]), count),
         average_latency |->
             FDivCount(Sum([i \in 1..count |-> stats[i].summary.avg_latency_ms]), count),
         median_latency |->
             FDivCount(Sum([i \in 1..count |-> stats[i].summary.median_latency_ms]), count)]

\* a variant that sums the latency series as it sums the throughput series
calculate_group_time_series_latency_summed(stats, moving_average_window) ==
    LET avg_throughput_mb_ts ==
            aggregate_sum(collect([i \in 1..Len(stats) |-> stats[i].throughput_mb_ts]))
        avg_throughput_msg_ts ==
            aggregate_sum(collect([i \in 1..Len(stats) |-> stats[i].throughput_msg_ts]))
        avg_latency_ts ==
            aggregate_sum(collect([i \in 1..Len(stats) |-> stats[i].latency_ts]))
    IN  <<process(moving_average_window, avg_throughput_mb_ts),
          process(moving_average_window, avg_throughput_msg_ts),
          process(moving_average_window, avg_latency_ts)>>

\* the tuple (avg_throughput_mb_ts, avg_throughput_msg_ts, avg_latency_ts)
calculate_group_time_series(stats, moving_average_window) ==
    LET avg_throughput_mb_ts ==
            aggregate_sum(collect([i \in 1..Len(stats) |-> stats[i].throughput_mb_ts]))
        avg_throughput_msg_ts ==
            aggregate_sum(collect([i \in 1..Len(stats) |-> stats[i].throughput_msg_ts]))
        avg_latency_ts ==
            aggregate_avg(collect([i \in 1..Len(stats) |-> stats[i].latency_ts]))
    IN  <<process(moving_average_window, avg_throughput_mb_ts),
          process(moving_average_window, avg_throughput_msg_ts),
          process(moving_average_window, avg_latency_ts)>>

unwrap_or(option, default) == IF option.is_some THEN option.value ELSE default

\* a variant that prefers the minimum and maximum of the latency series
calculate_min_max_latencies_series_first(stats, avg_latency_ts) ==
    LET min_latency_ms ==
            IF Len(stats) = 0 THEN None
            ELSE MinBy([i \in 1..Len(stats) |-> stats[i].summary.min_latency_ms])
        max_latency_ms ==
            IF Len(stats) = 0 THEN None
            ELSE MaxBy([i \in 1..Len(stats) |-> stats[i].summary.max_latency_ms])
    IN  <<IF min(avg_latency_ts).is_some THEN min(avg_latency_ts).value
          ELSE unwrap_or(min_latency_ms, Zero),
          IF max(avg_latency_ts).is_some THEN max(avg_latency_ts).value
          ELSE unwrap_or(max_latency_ms, Zero)>>

\* a variant that defaults to 0.0 without consulting the latency series
calculate_min_max_latencies_series_ignored(stats, avg_latency_ts) ==
    LET min_latency_ms ==
            IF Len(stats) = 0 THEN None
            ELSE MinBy([i \in 1..Len(stats) |-> stats[i].summary.min_latency_ms])
        max_latency_ms ==
            IF Len(stats) = 0 THEN None
            ELSE MaxBy([i \in 1..Len(stats) |-> stats[i].summary.max_latency_ms])
    IN  <<unwrap_or(min_latency_ms, Zero), unwrap_or(max_latency_ms, Zero)>>

\* the tuple (min_latency_ms_value, max_latency_ms_value)
calculate_min_max_latencies(stats, avg_latency_ts) ==
    LET min_latency_ms ==
            IF Len(stats) = 0 THEN None
            ELSE MinBy([i \in 1..Len(stats) |-> stats[i].summary.min_latency_ms])
        max_latency_ms ==
            IF Len(stats) = 0 THEN None
            ELSE MaxBy([i \in 1..Len(stats) |-> stats[i].summary.max_latency_ms])
    IN  <<IF min_latency_ms.is_some THEN min_latency_ms.value
          ELSE unwrap_or(min(avg_latency_ts), Zero),
          IF max_latency_ms.is_some THEN max_latency_ms.value
          ELSE unwrap_or(max(avg_latency_ts), Zero)>>

\* the summary built at the end of from_individual_metrics
BenchmarkGroupMetricsSummary(stats, time_series) ==
    LET kind == IF Len(stats) = GroupKindThreshold
                THEN determine_group_kind(stats)
                ELSE "ProducersAndConsumers"
        throughput_metrics == calculate_throughput_metrics(stats)
        latency_metrics == calculate_latency_metrics(stats)
        min_max == calculate_min_max_latencies(stats, time_series[3])
    IN  [kind |-> kind,
         total_throughput_megabytes_per_second |->
             throughput_metrics.total_megabytes_per_sec,
         total_throughput_messages_per_second |->
             throughput_metrics.total_messages_per_sec,
         average_throughput_megabytes_per_second |->
             throughput_metrics.average_megabytes_per_sec,
         average_throughput_messages_per_second |->
             throughput_metrics.average_messages_per_sec,
         average_p50_latency_ms |-> latency_metrics.p50_latency,
         average_p90_latency_ms |-> latency_metrics.p90_latency,
         average_p95_latency_ms |-> latency_metrics.p95_latency,
         average_p99_latency_ms |-> latency_metrics.p99_latency,
         average_p999_latency_ms |-> latency_metrics.p999_latency,
         average_p9999_latency_ms |-> latency_metrics.p9999_latency,
         average_latency_ms |-> latency_metrics.average_latency,
         average_median_latency_ms |-> latency_metrics.median_latency,
         min_latency_ms |-> min_max[1],
         max_latency_ms |-> min_max[2],
         std_dev_latency_ms |-> unwrap_or(std_dev(time_series[3]), Zero)]

\* the value from_individual_metrics returns for the records it aggregates
BenchmarkGroupMetrics(stats, moving_average_window) ==
    LET time_series == calculate_group_time_series(stats, moving_average_window)
    IN  [summary |-> BenchmarkGroupMetricsSummary(stats, time_series),
         avg_throughput_mb_ts |-> time_series[1],
         avg_throughput_msg_ts |-> time_series[2],
         avg_latency_ts |-> time_series[3]]

\* a variant without the early return for an empty list
from_individual_metrics_unguarded(stats, moving_average_window) ==
    Some(BenchmarkGroupMetrics(stats, moving_average_window))

from_individual_metrics(stats, moving_average_window) ==
    IF Len(stats) = 0 THEN None
    ELSE Some(BenchmarkGroupMetrics(stats, moving_average_window))

\* a call of a helper: its name and the length of the list it is passed
HelperCall(helper, stats) == [helper |-> helper, len |-> Len(stats)]

\* a variant that reaches the helpers without the early return
from_individual_metrics_calls_unguarded(stats) ==
    (IF Len(stats) = GroupKindThreshold
     THEN <<HelperCall("determine_group_kind", stats)>>
     ELSE <<>>)
    \o <<HelperCall("calculate_throughput_metrics", stats),
         HelperCall("calculate_latency_metrics", stats),
         HelperCall("calculate_group_time_series", stats),
         HelperCall("calculate_min_max_latencies", stats)>>

\* the helper calls from_individual_metrics makes, in the order it makes them
from_individual_metrics_calls(stats) ==
    IF Len(stats) = 0 THEN <<>>
    ELSE (IF Len(stats) = GroupKindThreshold
          THEN <<HelperCall("determine_group_kind", stats)>>
          ELSE <<>>)
         \o <<HelperCall("calculate_throughput_metrics", stats),
              HelperCall("calculate_latency_metrics", stats),
              HelperCall("calculate_group_time_series", stats),
              HelperCall("calculate_min_max_latencies", stats)>>

\* the helper calls from_producers_and_consumers_statistics makes, all of
\* them through from_individual_metrics on the concatenated list
from_producers_and_consumers_statistics_calls(producers_stats, consumers_stats) ==
    from_individual_metrics_calls(producers_stats \o consumers_stats)

\* a variant that concatenates the consumers first
from_producers_and_consumers_statistics_consumers_first(producers_stats, consumers_stats, moving_average_window) ==
    LET summary == from_individual_metrics(consumers_stats \o producers_stats,
                                           moving_average_window)
    IN  IF ~summary.is_some THEN None
        ELSE Some([summary.value EXCEPT !.summary.kind = "ProducersAndConsumers"])

\* a variant that returns what from_individual_metrics classified
from_producers_and_consumers_statistics_kind_kept(producers_stats, consumers_stats, moving_average_window) ==
    from_individual_metrics(producers_stats \o consumers_stats, moving_average_window)

from_producers_and_consumers_statistics(producers_stats, consumers_stats, moving_average_window) ==
    LET summary == from_individual_metrics(producers_stats \o consumers_stats,
                                           moving_average_window)
    IN  IF ~summary.is_some THEN None
        ELSE Some([summary.value EXCEPT !.summary.kind = "ProducersAndConsumers"])

(***************************************************************************)
(* The arguments a call is made with.                                      *)
(***************************************************************************)
\* <<actor kind, profile>> of the records the lists are drawn from
Actors ==
    {<<"Producer", 1>>, <<"Producer", 2>>, <<"Consumer", 1>>,
     <<"ProducingConsumer", 2>>, <<"Consumer", 0>>}

\* the record every long list is filled up with
Filler == <<"Consumer", 1>>

RECURSIVE SeqsUpTo(_, _)
SeqsUpTo(S, n) ==
    IF n = 0 THEN {<<>>}
    ELSE LET shorter == SeqsUpTo(S, n - 1)
         IN  shorter \cup {Append(s, x) : s \in {t \in shorter : Len(t) = n - 1}, x \in S}

\* the lists of at most MaxLen freely chosen actors
Heads == SeqsUpTo(Actors, MaxLen)

\* head, filled up with the filler to `size` records
FillTo(head, size) ==
    [i \in 1..size |-> IF i <= Len(head) THEN head[i] ELSE Filler]

\* the heads of the long lists: at most one freely chosen record, which is
\* the first record, before the filler
LongHeads == {h \in Heads : Len(h) <= 1}

\* record counts around the threshold
LongSizes == {GroupKindThreshold - 1, GroupKindThreshold, GroupKindThreshold + 1}

Windows == 0..MaxWindow

Samples == 1..MaxSamples

\* the series calculate_min_max_latencies is handed when it is called alone
FallbackValues == {F(3), F(7)}

FallbackSeries == SeqsUpTo(FallbackValues, MaxSamples)

\* the records of a list of actors, each with `samples` samples per series
Records(actors, n) ==
    collect([i \in 1..Len(actors) |->
        BenchmarkIndividualMetrics(actors[i][1], actors[i][2], n)])

(***************************************************************************)
(* One call of an entry point.  The argument lists are kept by what they   *)
(* are made of: the free head, the record count and, for the two-list      *)
(* entry point, how many of the records are the producers'.  A call of     *)
(* calculate_min_max_latencies alone, as a unit test makes it, is handed   *)
(* the records and a latency series of its own.                            *)
(***************************************************************************)
VARIABLES
    entry,                  \* the entry point called
    head,                   \* the actors at the head of the records
    count,                  \* the number of records
    split,                  \* the number of records in producers_stats
    samples,                \* samples per time series
    moving_average_window,  \* argument of both entry points
    fallback_series,        \* series argument of calculate_min_max_latencies
    pc,                     \* "called" until the function returns
    calls,                  \* the helper calls made so far
    result                  \* what the call returned

vars ==
    <<entry, head, count, split, samples, moving_average_window,
      fallback_series, pc, calls, result>>

\* all the records of the call, in order
AllStats == Records(FillTo(head, count), samples)

\* the argument of from_individual_metrics
stats == AllStats

\* the arguments of from_producers_and_consumers_statistics
producers_stats == SubSeq(AllStats, 1, split)

consumers_stats == SubSeq(AllStats, split + 1, count)

\* A short list is all head and is called with every window and sample
\* count; a long list is called with the largest of both.
Init ==
    /\ pc = "called"
    /\ calls = <<>>
    /\ result = None
    /\ fallback_series = <<>>
    /\ \/ /\ head \in Heads
          /\ count = Len(head)
          /\ moving_average_window \in Windows
          /\ samples \in Samples
       \/ /\ head \in LongHeads
          /\ count \in LongSizes
          /\ moving_average_window = MaxWindow
          /\ samples = MaxSamples
    /\ \/ /\ entry = "from_individual_metrics"
          /\ split = 0
       \/ /\ entry = "from_producers_and_consumers_statistics"
          /\ count <= GroupKindThreshold
          /\ split \in {k \in 0..count : k <= MaxLen \/ count - k <= MaxLen}

FromIndividualMetrics ==
    /\ pc = "called"
    /\ entry = "from_individual_metrics"
    /\ result' = from_individual_metrics(stats, moving_average_window)
    /\ calls' = from_individual_metrics_calls(stats)
    /\ pc' = "returned"
    /\ UNCHANGED <<entry, head, count, split, samples, moving_average_window,
                   fallback_series>>

FromProducersAndConsumersStatistics ==
    /\ pc = "called"
    /\ entry = "from_producers_and_consumers_statistics"
    /\ result' = from_producers_and_consumers_statistics(
                     producers_stats, consumers_stats, moving_average_window)
    /\ calls' = from_producers_and_consumers_statistics_calls(
                    producers_stats, consumers_stats)
    /\ pc' = "returned"
    /\ UNCHANGED <<entry, head, count, split, samples, moving_average_window,
                   fallback_series>>

Next == FromIndividualMetrics \/ FromProducersAndConsumersStatistics

Spec == Init /\ [][Next]_vars

\* calculate_min_max_latencies called alone, with every short list of
\* records (the empty one too) and every short series
InitHelper ==
    /\ pc = "called"
    /\ calls = <<>>
    /\ result = None
    /\ entry = "calculate_min_max_latencies"
    /\ head \in Heads
    /\ count = Len(head)
    /\ split = 0
    /\ samples = 1
    /\ moving_average_window = 0
    /\ fallback_series \in FallbackSeries

CalculateMinMaxLatencies ==
    /\ pc = "called"
    /\ entry = "calculate_min_max_latencies"
    /\ result' = calculate_min_max_latencies(stats, fallback_series)
    /\ calls' = <<HelperCall("calculate_min_max_latencies", stats)>>
    /\ pc' = "returned"
    /\ UNCHANGED <<entry, head, count, split, samples, moving_average_window,
                   fallback_series>>

NextHelper == CalculateMinMaxLatencies

SpecHelper == InitHelper /\ [][NextHelper]_vars

(***************************************************************************)
(* Properties                                                              *)
(***************************************************************************)
Returned == pc = "returned"

Direct == entry = "from_individual_metrics"

Combined == entry = "from_producers_and_consumers_statistics"

\* C1: from_individual_metrics returns None for an empty list of records,
\* whatever the window, and Some for every non-empty list.
C1_AbsentIffEmpty ==
    (Returned /\ Direct) => (result.is_some <=> stats # <<>>)

\* an empty list was aggregated, with a window that is not the smallest
C1_Witness ==
    /\ Returned /\ Direct
    /\ stats = <<>>
    /\ moving_average_window = MaxWindow
    /\ result = None

\* the group kind the claims expect for an actor kind
GroupKindOf(actor_kind) ==
    CASE actor_kind = "Producer" -> "Producers"
      [] actor_kind = "Consumer" -> "Consumers"
      [] actor_kind = "ProducingConsumer" -> "ProducingConsumers"

\* C2: the kind from_individual_metrics returns is that of the first
\* record's actor kind for exactly 200 records, whatever the kinds of the
\* other records, and ProducersAndConsumers for every other record count.
C2_ThresholdKind ==
    (Returned /\ Direct /\ result.is_some) =>
        result.value.summary.kind =
            IF Len(stats) = 200
            THEN GroupKindOf(stats[1].summary.actor_kind)
            ELSE "ProducersAndConsumers"

\* 200 records, the first a Producer and the others not: Producers
C2_Witness ==
    /\ Returned /\ Direct
    /\ Len(stats) = 200
    /\ stats[1].summary.actor_kind = "Producer"
    /\ \A i \in 2..200 : stats[i].summary.actor_kind # "Producer"
    /\ result.value.summary.kind = "Producers"

\* C3: every present result of from_producers_and_consumers_statistics is
\* of kind ProducersAndConsumers, also for 200 records led by a Producer.
C3_KindOverridden ==
    (Returned /\ Combined /\ result.is_some) =>
        result.value.summary.kind = "ProducersAndConsumers"

\* 200 records in all, the first a Producer, which from_individual_metrics
\* classifies as Producers
C3_Witness ==
    /\ Returned /\ Combined
    /\ Len(producers_stats) + Len(consumers_stats) = 200
    /\ Len(producers_stats) > 0
    /\ Len(consumers_stats) > 0
    /\ producers_stats[1].summary.actor_kind = "Producer"
    /\ from_individual_metrics(producers_stats \o consumers_stats,
                               moving_average_window).value.summary.kind = "Producers"
    /\ result.value.summary.kind = "ProducersAndConsumers"

(***************************************************************************)
(* The sum of a field over all records, stated without reference to the    *)
(* order of the records: every distinct record contributes its value as    *)
(* often as it occurs.                                                     *)
(***************************************************************************)
RECURSIVE SumOfSet(_)
SumOfSet(terms) ==
    IF terms = {} THEN Zero
    ELSE LET t == CHOOSE t \in terms : TRUE
         IN  FAdd(t[2], SumOfSet(terms \ {t}))

\* summaries: the sequence of the records' summaries
TotalOf(summaries, field) ==
    LET distinct == {summaries[i] : i \in 1..Len(summaries)}
        occurrences(r) == Cardinality({i \in 1..Len(summaries) : summaries[i] = r})
    IN  SumOfSet({<<r, FMul(F(occurrences(r)), r[field])>> : r \in distinct})

Summaries(records) == [i \in 1..Len(records) |-> records[i].summary]

\* average is total / count
IsQuotient(average, total, n) == FMul(average, F(n)) = total

\* C4: the summary's total throughput (MB/s and msg/s) is the sum of the
\* records' throughput fields, and its average throughput is that total
\* divided by the number of records.
C4_ThroughputTotalsAndAverages ==
    (Returned /\ result.is_some) =>
        LET summaries == collect(Summaries(AllStats))
            summary == result.value.summary
        IN  /\ summary.total_throughput_megabytes_per_second =
                   TotalOf(summaries, "throughput_megabytes_per_second")
            /\ summary.total_throughput_messages_per_second =
                   TotalOf(summaries, "throughput_messages_per_second")
            /\ IsQuotient(summary.average_throughput_megabytes_per_second,
                          summary.total_throughput_megabytes_per_second, count)
            /\ IsQuotient(summary.average_throughput_messages_per_second,
                          summary.total_throughput_messages_per_second, count)

\* records of throughput 10 and 20 MB/s: 30 in total, 15 on average
C4_Witness ==
    /\ Returned /\ Direct
    /\ count >= 2
    /\ \E i, j \in 1..count :
          stats[i].summary.throughput_megabytes_per_second #
              stats[j].summary.throughput_megabytes_per_second
    /\ result.value.summary.total_throughput_megabytes_per_second = F(30)
    /\ result.value.summary.average_throughput_megabytes_per_second = F(15)
    /\ result.value.summary.total_throughput_messages_per_second = F(3000)

\* C5: each average latency field of the summary (p50, p90, p95, p99, p999,
\* p9999, mean, median) is the arithmetic mean of the same field of the
\* records, and of no other field.
C5_LatencyAverages ==
    (Returned /\ result.is_some) =>
        LET summaries == collect(Summaries(AllStats))
            summary == result.value.summary
        IN  /\ IsQuotient(summary.average_p50_latency_ms,
                          TotalOf(summaries, "p50_latency_ms"), count)
            /\ IsQuotient(summary.average_p90_latency_ms,
                          TotalOf(summaries, "p90_latency_ms"), count)
            /\ IsQuotient(summary.average_p95_latency_ms,
                          TotalOf(summaries, "p95_latency_ms"), count)
            /\ IsQuotient(summary.average_p99_latency_ms,
                          TotalOf(summaries, "p99_latency_ms"), count)
            /\ IsQuotient(summary.average_p999_latency_ms,
                          TotalOf(summaries, "p999_latency_ms"), count)
            /\ IsQuotient(summary.average_p9999_latency_ms,
                          TotalOf(summaries, "p9999_latency_ms"), count)
            /\ IsQuotient(summary.average_latency_ms,
                          TotalOf(summaries, "avg_latency_ms"), count)
            /\ IsQuotient(summary.average_median_latency_ms,
                          TotalOf(summaries, "median_latency_ms"), count)

\* the eight averages of a result
LatencyAverages(summary) ==
    {summary.average_p50_latency_ms, summary.average_p90_latency_ms,
     summary.average_p95_latency_ms, summary.average_p99_latency_ms,
     summary.average_p999_latency_ms, summary.average_p9999_latency_ms,
     summary.average_latency_ms, summary.average_median_latency_ms}

\* records of different latencies whose eight averages all differ, the p99
\* average being 9 = (7 + 11) / 2
C5_Witness ==
    /\ Returned /\ Direct
    /\ count = 2
    /\ stats[1].summary.p99_latency_ms = F(7)
    /\ stats[2].summary.p99_latency_ms = F(11)
    /\ result.value.summary.average_p99_latency_ms = F(9)
    /\ Cardinality(LatencyAverages(result.value.summary)) = 8

\* no record has a NaN minimum or maximum latency
NoNaNLatency(records) ==
    \A i \in 1..Len(records) :
        /\ ~IsNaN(records[i].summary.min_latency_ms)
        /\ ~IsNaN(records[i].summary.max_latency_ms)

\* C6: without NaN latencies, the summary's min_latency_ms is the minimum
\* of the records' min_latency_ms and its max_latency_ms the maximum of
\* their max_latency_ms, whatever the time series hold.
C6_MinMaxOfRecords ==
    (Returned /\ result.is_some) =>
        LET records == AllStats
            summary == result.value.summary
            mins == {records[i].summary.min_latency_ms : i \in 1..Len(records)}
            maxs == {records[i].summary.max_latency_ms : i \in 1..Len(records)}
        IN  NoNaNLatency(records) =>
                /\ summary.min_latency_ms \in mins
                /\ \A v \in mins : ~FLess(v, summary.min_latency_ms)
                /\ summary.max_latency_ms \in maxs
                /\ \A v \in maxs : ~FLess(summary.max_latency_ms, v)

\* one record with min 1 and max 50, whose smoothed latency series lies
\* strictly between the two
C6_Witness ==
    /\ Returned /\ Direct
    /\ count = 1
    /\ stats[1].summary.min_latency_ms = F(1)
    /\ stats[1].summary.max_latency_ms = F(50)
    /\ result.value.avg_latency_ts # <<>>
    /\ \A i \in 1..Len(result.value.avg_latency_ts) :
          /\ FLess(F(1), result.value.avg_latency_ts[i])
          /\ FLess(result.value.avg_latency_ts[i], F(50))
    /\ result.value.summary.min_latency_ms = F(1)
    /\ result.value.summary.max_latency_ms = F(50)

(***************************************************************************)
(* Permutations of the records.  The first MaxLen positions of a list are  *)
(* permuted in every way (a short list as a whole; a long list in its head *)
(* and the first records after it).                                        *)
(***************************************************************************)
PermutationsOf(records) ==
    LET n == IF Len(records) < MaxLen THEN Len(records) ELSE MaxLen
    IN  {collect([i \in 1..Len(records) |-> IF i <= n THEN records[f[i]] ELSE records[i]]) :
            f \in Permutations(1..n)}

\* the scalar aggregates of a summary other than its kind and min/max
Sums(summary) ==
    <<summary.total_throughput_megabytes_per_second,
      summary.total_throughput_messages_per_second,
      summary.average_throughput_megabytes_per_second,
      summary.average_throughput_messages_per_second,
      summary.average_p50_latency_ms, summary.average_p90_latency_ms,
      summary.average_p95_latency_ms, summary.average_p99_latency_ms,
      summary.average_p999_latency_ms, summary.average_p9999_latency_ms,
      summary.average_latency_ms, summary.average_median_latency_ms>>

MinMax(summary) == <<summary.min_latency_ms, summary.max_latency_ms>>

\* C7 as claimed: permuting the records changes no scalar aggregate of the
\* summary (kind, total and average throughput, averaged latency fields,
\* min and max latency).  Stated for well-formed records (no NaN latency),
\* which is all it takes to refute it.
C7_OrderIndependent ==
    (Returned /\ Direct /\ result.is_some) =>
        \A records \in {stats} : \A permuted \in PermutationsOf(records) :
            LET other == from_individual_metrics(permuted, moving_average_window).value.summary
            IN  NoNaNLatency(records) =>
                    /\ other.kind = result.value.summary.kind
                    /\ Sums(other) = Sums(result.value.summary)
                    /\ MinMax(other) = MinMax(result.value.summary)

\* C7 as amended: permuting the records changes neither the total and
\* average throughput nor the averaged latency fields, nor the min and max
\* latency when no record has a NaN min/max latency; the kind is unchanged
\* as well unless the list holds exactly 200 records and the permutation
\* puts a record of another actor kind first.
C7_OrderIndependentButKind ==
    (Returned /\ Direct /\ result.is_some) =>
        \A records \in {stats} : \A permuted \in PermutationsOf(records) :
            LET other == from_individual_metrics(permuted, moving_average_window).value.summary
            IN  /\ Sums(other) = Sums(result.value.summary)
                /\ NoNaNLatency(records) => MinMax(other) = MinMax(result.value.summary)
                /\ (\/ Len(records) # 200
                    \/ permuted[1].summary.actor_kind = records[1].summary.actor_kind)
                        => other.kind = result.value.summary.kind

\* two different records of one actor kind, whose exchange changes nothing
C7_Witness ==
    /\ Returned /\ Direct
    /\ count = 2
    /\ stats[1] # stats[2]
    /\ stats[1].summary.actor_kind = stats[2].summary.actor_kind
    /\ NoNaNLatency(stats)
    /\ from_individual_metrics(<<stats[2], stats[1]>>, moving_average_window).value.summary
           = result.value.summary

\* C8: for records without NaN latencies (and series of one length),
\* from_producers_and_consumers_statistics returns the same for (P, C, w)
\* and (C, P, w): both absent, or the same summary, kind included, and the
\* same three series.
C8_ConcatenationOrder ==
    (Returned /\ Combined) =>
        \A records \in {AllStats} :
            NoNaNLatency(records) =>
                from_producers_and_consumers_statistics(
                    SubSeq(records, split + 1, count), SubSeq(records, 1, split),
                    moving_average_window) = result

\* 200 records, the producers led by a Producer and the consumers by a
\* Consumer of other measurements, aggregated alike in either order
C8_Witness ==
    /\ Returned /\ Combined
    /\ count = 200
    /\ split >= 1 /\ split < count
    /\ producers_stats[1].summary.actor_kind = "Producer"
    /\ consumers_stats[1].summary.actor_kind = "Consumer"
    /\ producers_stats[1].summary # consumers_stats[1].summary
    /\ NoNaNLatency(AllStats)
    /\ result.is_some
    /\ from_producers_and_consumers_statistics(
           consumers_stats, producers_stats, moving_average_window) = result

\* C9: from_producers_and_consumers_statistics(P, C, w) is absent exactly
\* when from_individual_metrics(P ++ C, w) is, that is when P and C are both
\* empty, and otherwise equals it in every field (the summary's scalars and
\* the three series) but summary.kind.
C9_DelegatesButKind ==
    (Returned /\ Combined) =>
        \A P \in {producers_stats} : \A C \in {consumers_stats} :
            LET direct == from_individual_metrics(P \o C, moving_average_window)
            IN  /\ result.is_some <=> direct.is_some
                /\ direct.is_some <=> ~(P = <<>> /\ C = <<>>)
                /\ result.is_some =>
                       [result.value EXCEPT !.summary.kind = direct.value.summary.kind]
                           = direct.value

\* both lists hold records; the direct path classifies them as Producers,
\* and that is the one field in which the results differ
C9_Witness ==
    /\ Returned /\ Combined
    /\ producers_stats # <<>>
    /\ consumers_stats # <<>>
    /\ LET direct == from_individual_metrics(producers_stats \o consumers_stats,
                                             moving_average_window)
       IN  /\ direct.value.summary.kind = "Producers"
           /\ result.value # direct.value
           /\ [result.value EXCEPT !.summary.kind = "Producers"] = direct.value

\* C10: the three series returned are the smoothed elementwise sum of the
\* records' throughput-MB series, the smoothed elementwise sum of their
\* throughput-msg series and the smoothed elementwise mean of their latency
\* series, all smoothed with the window of the call; std_dev_latency_ms is
\* the standard deviation of that smoothed latency series, and 0.0 when the
\* series has none.
C10_SmoothedSeriesAndStdDev ==
    (Returned /\ result.is_some) =>
        \A records \in {AllStats} :
            LET mb == collect([i \in 1..Len(records) |-> records[i].throughput_mb_ts])
                msg == collect([i \in 1..Len(records) |-> records[i].throughput_msg_ts])
                latency == collect([i \in 1..Len(records) |-> records[i].latency_ts])
                smoothed == process(moving_average_window, aggregate_avg(latency))
                deviation == std_dev(smoothed)
            IN  /\ result.value.avg_throughput_mb_ts =
                       process(moving_average_window, aggregate_sum(mb))
                /\ result.value.avg_throughput_msg_ts =
                       process(moving_average_window, aggregate_sum(msg))
                /\ result.value.avg_latency_ts = smoothed
                /\ result.value.summary.std_dev_latency_ms =
                       IF deviation.is_some THEN deviation.value ELSE Zero

\* two records of different series: the mean latency series <<3, 6>> is
\* smoothed to <<3, 9/2>>, whose standard deviation is 3/4
C10_Witness ==
    /\ Returned /\ Direct
    /\ count = 2
    /\ moving_average_window = 2
    /\ stats[1].latency_ts = <<F(2), F(4)>>
    /\ stats[2].latency_ts = <<F(4), F(8)>>
    /\ result.value.avg_latency_ts = <<F(3), Frac(9, 2)>>
    /\ result.value.summary.std_dev_latency_ms = Frac(3, 4)
    /\ result.value.avg_throughput_mb_ts = <<F(32), F(33)>>

\* calculate_min_max_latencies was called alone
Alone == entry = "calculate_min_max_latencies"

\* C11: called with an empty list of records, calculate_min_max_latencies
\* returns the least and the greatest value of the fallback series, and
\* (0.0, 0.0) for an empty fallback series; called with a non-empty list it
\* returns values of the records, the same whatever the fallback series.
C11_FallbackOnlyWhenEmpty ==
    (Returned /\ Alone) =>
        LET values == {fallback_series[i] : i \in 1..Len(fallback_series)}
            mins == {stats[i].summary.min_latency_ms : i \in 1..Len(stats)}
            maxs == {stats[i].summary.max_latency_ms : i \in 1..Len(stats)}
        IN  IF stats = <<>>
            THEN IF values = {}
                 THEN result = <<Zero, Zero>>
                 ELSE /\ result[1] \in values
                      /\ \A v \in values : ~FLess(v, result[1])
                      /\ result[2] \in values
                      /\ \A v \in values : ~FLess(result[2], v)
            ELSE /\ result[1] \in mins
                 /\ result[2] \in maxs
                 /\ \A other \in FallbackSeries :
                        calculate_min_max_latencies(stats, other) = result

\* no records and the fallback series <<7, 3>>: (3, 7)
C11_Witness ==
    /\ Returned /\ Alone
    /\ stats = <<>>
    /\ fallback_series = <<F(7), F(3)>>
    /\ result = <<F(3), F(7)>>

\* C12: whichever entry point is called, every helper it reaches is passed
\* the whole, non-empty list of records: calculate_min_max_latencies never
\* takes its empty-list branch, determine_group_kind has a first record to
\* read and the divisor count is not 0.  Helpers are reached exactly when
\* a value is returned; its averages are then no 0/0 and its min and max
\* latency are values of the records.
C12_HelpersReachedWithRecords ==
    /\ \A i \in 1..Len(calls) : calls[i].len > 0 /\ calls[i].len = count
    /\ Returned => (calls # <<>> <=> result.is_some)
    /\ (Returned /\ result.is_some) =>
           \A records \in {AllStats} :
               LET summary == result.value.summary
                   mins == {records[i].summary.min_latency_ms : i \in 1..count}
                   maxs == {records[i].summary.max_latency_ms : i \in 1..count}
               IN  /\ \A average \in LatencyAverages(summary) : ~IsNaN(average)
                   /\ ~IsNaN(summary.average_throughput_megabytes_per_second)
                   /\ ~IsNaN(summary.average_throughput_messages_per_second)
                   /\ summary.min_latency_ms \in mins
                   /\ summary.max_latency_ms \in maxs

\* the two lists hold 200 records together: all five helpers were reached,
\* determine_group_kind first, each with the 200 records
C12_Witness ==
    /\ Returned /\ Combined
    /\ split = 1
    /\ Len(calls) = 5
    /\ calls[1] = [helper |-> "determine_group_kind", len |-> 200]
    /\ calls[5] = [helper |-> "calculate_min_max_latencies", len |-> 200]

\* C13: a comparison with NaN counts as Equal, so min_by keeps a NaN that
\* comes first (and a finite value that comes before a NaN) and max_by
\* takes a NaN that comes last (and a finite value that comes after one).
\* Hence for every list of records with both a NaN and a finite
\* min_latency_ms some permutation of the list returns a finite minimum
\* where the list returns NaN, or NaN where it returns a finite one; and
\* likewise for max_latency_ms and the maximum.
C13_NaNOrderDependent ==
    (Returned /\ Alone /\ stats # <<>>) =>
        \A records \in {stats} :
            LET n == Len(records)
                mins == {records[i].summary.min_latency_ms : i \in 1..n}
                maxs == {records[i].summary.max_latency_ms : i \in 1..n}
                Mixed(values) ==
                    (\E v \in values : IsNaN(v)) /\ (\E v \in values : ~IsNaN(v))
            IN  /\ IsNaN(result[1]) <=> IsNaN(records[1].summary.min_latency_ms)
                /\ IsNaN(result[2]) <=> IsNaN(records[n].summary.max_latency_ms)
                /\ Mixed(mins) =>
                       \E permuted \in PermutationsOf(records) :
                           IsNaN(calculate_min_max_latencies(permuted, fallback_series)[1])
                               # IsNaN(result[1])
                /\ Mixed(maxs) =>
                       \E permuted \in PermutationsOf(records) :
                           IsNaN(calculate_min_max_latencies(permuted, fallback_series)[2])
                               # IsNaN(result[2])

\* a record with NaN latencies before one with min 1 and max 50 returns
\* (NaN, 50); the same two records in the other order return (1, NaN)
C13_Witness ==
    /\ Returned /\ Alone
    /\ count = 2
    /\ IsNaN(stats[1].summary.min_latency_ms)
    /\ stats[2].summary.min_latency_ms = F(1)
    /\ result = <<NaN, F(50)>>
    /\ calculate_min_max_latencies(<<stats[2], stats[1]>>, fallback_series)
           = <<F(1), NaN>>

====
